---- MODULE Spec2Model ----
(***************************************************************************)
(* Model of the spacegame orbital core: the hierarchy builder              *)
(* Body.NewSystem and the orbit propagator orbit.PositionAt of the Go data *)
(* package, and the simulation-clock propagator SystemMapRunner.           *)
(* updateOrbits of the GUI.                                                *)
(*                                                                         *)
(* Numbers.  The Go and TypeScript code computes in float64.  The model    *)
(* computes in exact rational arithmetic: a length, a mass ratio or an     *)
(* eccentricity is a normalised fraction <<num, den>> with den > 0.        *)
(* Angles are whole multiples of pi/2 ("quarter turns"), so that sin and   *)
(* cos are exact; masses are fifth powers, so that math.Pow(x, 0.4) is     *)
(* exact.  Rounding of float64 is not modelled.                            *)
(***************************************************************************)
EXTENDS Integers, Sequences, FiniteSets, TLC

VARIABLES
    node,       \* data package: node id -> the fields of the Body / Barycenter
    calls,      \* data package: one record per NewSystem call made so far
    obt,        \* propagator: the orbit PositionAt is called on
    julianDay,  \* propagator: the argument of PositionAt, in days
    posResult,  \* propagator: what PositionAt returned, or NoResult
    periodResult, \* propagator: what Period returned, once it was called
    solver,     \* propagator: one position computation taken step by step
    objects,    \* GUI runner: SystemMapRunner.objects, the orbit of each
    t,          \* GUI runner: SystemMapRunner.t, in clock ticks of 0.01
    deltaT,     \* GUI runner: props.deltaT, in clock ticks of 0.01
    framePos,   \* GUI runner: obj.frame.position of each object
    drawn,      \* GUI runner: whether draw has run at least once
    listeners,  \* GUI runner: the event listeners it has registered and not removed
    phase,      \* GUI runner: "new", "mounted" or "unmounted"
    rafPending, \* GUI runner: whether an animation frame for drawLoop is requested
    isCameraDirty \* GUI runner: SystemMapRunner.isCameraDirty

vars == <<node, calls, obt, julianDay, posResult, periodResult, solver, objects, t, deltaT, framePos, drawn,
         listeners, phase, rafPending, isCameraDirty>>
builderVars == <<node, calls>>
orbitVars == <<obt, julianDay, posResult, periodResult, solver>>
lifecycleVars == <<listeners, phase, rafPending, isCameraDirty>>
guiVars == <<objects, t, deltaT, framePos, drawn, lifecycleVars>>

---------------------------------------------------------------------------
(* Bounds of the model.                                                    *)

\* number of candidate satellites a NewSystem call can be given
MaxSats == 2
\* number of NewSystem calls made on the central body
MaxCalls == 2
\* latest day, counted from J2000, PositionAt is asked about
MaxDay == 4
\* largest value of the simulation clock, in ticks of 0.01
MaxT == 100

---------------------------------------------------------------------------
(* Exact rational arithmetic standing in for float64.                      *)

Abs(x) == IF x < 0 THEN -x ELSE x

RECURSIVE GCD(_, _)
GCD(x, y) == IF y = 0 THEN x ELSE GCD(y, x % y)

\* the fraction num/den in lowest terms with a positive denominator
Q(num, den) ==
    LET g == GCD(Abs(num), Abs(den))
        s == IF den < 0 THEN -1 ELSE 1
    IN  <<(s * num) \div g, (s * den) \div g>>

QI(i) == <<i, 1>>
QAdd(x, y) == Q(x[1] * y[2] + y[1] * x[2], x[2] * y[2])
QSub(x, y) == Q(x[1] * y[2] - y[1] * x[2], x[2] * y[2])
QMul(x, y) == Q(x[1] * y[1], x[2] * y[2])
QDiv(x, y) == Q(x[1] * y[2], x[2] * y[1])
QNeg(x) == <<-x[1], x[2]>>
QLt(x, y) == x[1] * y[2] < y[1] * x[2]
QLe(x, y) == x[1] * y[2] <= y[1] * x[2]

\* the fifth root of a mass of the model (masses are 1^5 and 2^5)
Root5(m) == IF m = QI(32) THEN QI(2) ELSE QI(1)

\* math.Pow(x, 0.4) for x = num/den a ratio of two masses: (x^(1/5))^2
Pow04(num, den) ==
    LET r == QDiv(Root5(num), Root5(den)) IN QMul(r, r)

---------------------------------------------------------------------------
(* The data model: orbit, orbiter, orbitable, Body, Barycenter.            *)

\* a nil interface value / nil pointer
NilNode == "nil"
centralBody == "central"
bc == "bc"
SatId(i) == "s" \o ToString(i)
SatIds == {SatId(i) : i \in 1..MaxSats}

\* a Go slice of Orbitable: nil, or a (possibly empty) list of nodes
NilSlice == [isNil |-> TRUE, elems |-> <<>>]
Slice(s) == [isNil |-> FALSE, elems |-> s]

\* type orbit struct: a and e are rationals, pomega, m0 and n count quarter turns
NewOrbit(a, e, pomega, m0, n) == [a |-> a, e |-> e, pomega |-> pomega, m0 |-> m0, n |-> n]

\* NewBody: parent, satellites and soi keep their zero values
NewBody(name, radius, mass, orbit) ==
    [kind |-> "Body", name |-> name, parent |-> NilNode, orbit |-> orbit,
     satellites |-> NilSlice, radius |-> radius, mass |-> mass, soi |-> QI(0)]

Satellites(o) == o.satellites
Radius(o) == o.radius
Mass(o) == o.mass
SoiRadius(o) == o.soi

---------------------------------------------------------------------------
(* Body.NewSystem, the hierarchy builder.                                  *)

\* byA.Less: strictly smaller semi-major axis
Less(nd, x, y) == QLt(nd[x].orbit.a, nd[y].orbit.a)

Range(s) == {s[i] : i \in 1..Len(s)}

\* sort.Sort(byA(satellites)): the sort is not stable, so every arrangement of
\* the same nodes in which no later element is Less than an earlier one is a
\* possible result
SortByA(nd, s) ==
    {p \in [1..Len(s) -> Range(s)] :
        /\ Range(p) = Range(s)
        /\ \A i, j \in 1..Len(s) : i < j => ~Less(nd, p[j], p[i])}

\* the first loop of NewSystem from its i-th satellite on: sets parent and soi
\* of each satellite and tracks the largest barycenter offset and its body
RECURSIVE ScanSatellites(_, _, _)
ScanSatellites(st, sats, i) ==
    IF i > Len(sats) THEN st
    ELSE
        LET s == sats[i]
            body == st.node[s]
            central == st.node[centralBody]
            soi == QMul(body.orbit.a, Pow04(body.mass, central.mass))
            r == QDiv(body.orbit.a, QAdd(QI(1), QDiv(central.mass, body.mass)))
            bigger == QLt(st.barycenter, r)
        IN  ScanSatellites(
                [node |-> [st.node EXCEPT ![s].parent = centralBody, ![s].soi = soi],
                 barycenter |-> IF bigger THEN r ELSE st.barycenter,
                 baryBody |-> IF bigger THEN s ELSE st.baryBody],
                sats, i + 1)

\* var baryBody *orbitable; barycenter := 0.0; then the first loop
FirstLoop(nd, sats) ==
    ScanSatellites([node |-> nd, barycenter |-> QI(0), baryBody |-> NilNode], sats, 1)

\* NoBarycenterNeeded with a wrong threshold: a quarter of the radius
NoBarycenterNeeded_QuarterRadius(barycenter, radius) ==
    QLt(barycenter, QMul(Q(1, 4), radius))

\* the test that ends NewSystem early: barycenter < 0.5*centralBody.Radius()
NoBarycenterNeeded(barycenter, radius) == QLt(barycenter, QMul(Q(1, 2), radius))

\* AttachToCentral without the assignment to soi
AttachToCentral_SoiUnset(nd, satellites) ==
    [nd EXCEPT ![centralBody].satellites = satellites]

\* the early return: the central body is the root and owns the sorted list
AttachToCentral(nd, satellites) ==
    [nd EXCEPT ![centralBody].soi = QI(-1),
               ![centralBody].satellites = satellites]

\* the second loop with the test body.a < baryBody.a, the soi left out
RECURSIVE PartitionSatellites_IgnoresSoi(_, _, _, _)
PartitionSatellites_IgnoresSoi(st, sats, baryBody, i) ==
    IF i > Len(sats) THEN st
    ELSE
        LET s == sats[i]
            body == st.node[s]
            bary == st.node[baryBody]
            isInner == QLt(body.orbit.a, bary.orbit.a)
        IN  PartitionSatellites_IgnoresSoi(
                [node |-> IF isInner THEN st.node ELSE [st.node EXCEPT ![s].parent = bc],
                 inner |-> IF isInner THEN Append(st.inner, s) ELSE st.inner,
                 outer |-> IF isInner THEN st.outer ELSE Append(st.outer, s)],
                sats, baryBody, i + 1)

\* the second loop of NewSystem from its i-th satellite on: splits the sorted
\* list into inner (stays with the central body) and outer (moves to bc)
RECURSIVE PartitionSatellites(_, _, _, _)
PartitionSatellites(st, sats, baryBody, i) ==
    IF i > Len(sats) THEN st
    ELSE
        LET s == sats[i]
            body == st.node[s]
            bary == st.node[baryBody]
            isInner == QLt(body.orbit.a, QSub(bary.orbit.a, bary.soi))
        IN  PartitionSatellites(
                [node |-> IF isInner THEN st.node ELSE [st.node EXCEPT ![s].parent = bc],
                 inner |-> IF isInner THEN Append(st.inner, s) ELSE st.inner,
                 outer |-> IF isInner THEN st.outer ELSE Append(st.outer, s)],
                sats, baryBody, i + 1)

\* inner := []Orbitable{}; outer := []Orbitable{centralBody}; then the second loop
SecondLoop(nd, sats, baryBody) ==
    PartitionSatellites([node |-> nd, inner |-> <<>>, outer |-> <<centralBody>>],
                        sats, baryBody, 1)

\* BarycenterName with the two names in the wrong order
BarycenterName_Swapped(centralName, baryName) ==
    baryName \o "-" \o centralName \o " Barycenter"

\* fmt.Sprintf("%v-%v Barycenter", centralBody.name, baryBody.name)
BarycenterName(centralName, baryName) ==
    centralName \o "-" \o baryName \o " Barycenter"

\* the barycenter with bc.mass = centralBody.mass alone
NewBarycenter_CentralMass(nd, outer, barycenter, baryBody) ==
    [kind |-> "Barycenter",
     name |-> BarycenterName(nd[centralBody].name, nd[baryBody].name),
     parent |-> NilNode,
     orbit |-> nd[centralBody].orbit,
     satellites |-> Slice(outer),
     radius |-> barycenter,
     mass |-> nd[centralBody].mass,
     soi |-> QI(-1)]

\* bc := &Barycenter{} and the assignments to its fields
NewBarycenter(nd, outer, barycenter, baryBody) ==
    [kind |-> "Barycenter",
     name |-> BarycenterName(nd[centralBody].name, nd[baryBody].name),
     parent |-> NilNode,
     orbit |-> nd[centralBody].orbit,
     satellites |-> Slice(outer),
     radius |-> barycenter,
     mass |-> QAdd(nd[centralBody].mass, nd[baryBody].mass),
     soi |-> QI(-1)]

\* the rewrite of the central body without centralBody.m0 += math.Pi
RewriteCentral_NoShift(nd, inner, barycenter, baryBody) ==
    [nd[centralBody] EXCEPT
        !.soi = QSub(nd[baryBody].orbit.a, nd[baryBody].soi),
        !.satellites = Slice(inner),
        !.orbit = [nd[baryBody].orbit EXCEPT !.a = barycenter]]

\* the rewrite of the central body: soi, satellites, orbit, a, m0 (pi is two
\* quarter turns); its parent field is not assigned
RewriteCentral(nd, inner, barycenter, baryBody) ==
    [nd[centralBody] EXCEPT
        !.soi = QSub(nd[baryBody].orbit.a, nd[baryBody].soi),
        !.satellites = Slice(inner),
        !.orbit = [nd[baryBody].orbit EXCEPT !.a = barycenter, !.m0 = @ + 2]]

\* RewriteBaryBody without the subtraction: the dominant satellite keeps its a
RewriteBaryBody_Unreduced(nd, barycenter, baryBody) == nd[baryBody]

\* baryBody.a -= barycenter
RewriteBaryBody(nd, barycenter, baryBody) ==
    [nd[baryBody] EXCEPT !.orbit.a = QSub(@, barycenter)]

\* the tail of NewSystem, from bc := &Barycenter{} to return bc
InsertBarycenter(nd, sats, barycenter, baryBody) ==
    LET st == SecondLoop(nd, sats, baryBody)
        nb == NewBarycenter(st.node, st.outer, barycenter, baryBody)
        nc == RewriteCentral(st.node, st.inner, barycenter, baryBody)
        nbb == RewriteBaryBody(st.node, barycenter, baryBody)
    IN  [x \in DOMAIN st.node \cup {bc} |->
            IF x = bc THEN nb
            ELSE IF x = centralBody THEN nc
            ELSE IF x = baryBody THEN nbb
            ELSE st.node[x]]

\* what one call leaves behind: its argument, the nodes as they were before
\* it, whether it returned or panicked, the root it returned and the
\* satellite it found dominant
CallRecord(arg, outcome, root, baryBody) ==
    [arg |-> arg, pre |-> node, outcome |-> outcome, root |-> root, baryBody |-> baryBody]

\* if centralBody.satellites != nil { panic("Satellites already set") }
NewSystemAlreadySet(arg) ==
    /\ Len(calls) < MaxCalls
    /\ UNCHANGED <<orbitVars, guiVars>>
    /\ ~node[centralBody].satellites.isNil
    /\ calls' = Append(calls, CallRecord(arg, "panic", NilNode, NilNode))
    /\ UNCHANGED node

\* the early return: the central body stays the root
NewSystemCentralRoot(arg) ==
    /\ Len(calls) < MaxCalls
    /\ UNCHANGED <<orbitVars, guiVars>>
    /\ node[centralBody].satellites.isNil
    /\ \E sorted \in SortByA(node, arg.elems) :
         LET st == FirstLoop(node, sorted) IN
         /\ NoBarycenterNeeded(st.barycenter, Radius(node[centralBody]))
         /\ node' = AttachToCentral(st.node, [arg EXCEPT !.elems = sorted])
         /\ calls' = Append(calls, CallRecord(arg, "return", centralBody, st.baryBody))

\* the barycenter branch with baryBody still nil: reading baryBody.a (or
\* baryBody.name when the list is empty) is a nil pointer dereference, which
\* panics after the first loop has run
NewSystemNilDereference(arg) ==
    /\ Len(calls) < MaxCalls
    /\ UNCHANGED <<orbitVars, guiVars>>
    /\ node[centralBody].satellites.isNil
    /\ \E sorted \in SortByA(node, arg.elems) :
         LET st == FirstLoop(node, sorted) IN
         /\ ~NoBarycenterNeeded(st.barycenter, Radius(node[centralBody]))
         /\ st.baryBody = NilNode
         /\ node' = st.node
         /\ calls' = Append(calls, CallRecord(arg, "panic", NilNode, NilNode))

\* the barycenter branch: a new Barycenter becomes the root
NewSystemBarycenter(arg) ==
    /\ Len(calls) < MaxCalls
    /\ UNCHANGED <<orbitVars, guiVars>>
    /\ node[centralBody].satellites.isNil
    /\ \E sorted \in SortByA(node, arg.elems) :
         LET st == FirstLoop(node, sorted) IN
         /\ ~NoBarycenterNeeded(st.barycenter, Radius(node[centralBody]))
         /\ st.baryBody # NilNode
         /\ node' = InsertBarycenter(st.node, sorted, st.barycenter, st.baryBody)
         /\ calls' = Append(calls, CallRecord(arg, "return", bc, st.baryBody))

\* the satellite lists a caller passes: nil, empty, or the first k candidates
\* (their elements vary independently, so every order of a's is covered)
SatelliteArgs ==
    {NilSlice} \cup {Slice([i \in 1..k |-> SatId(i)]) : k \in 0..MaxSats}

\* func (centralBody *Body) NewSystem(satellites []Orbitable) System
NewSystem ==
    \E arg \in SatelliteArgs :
        \/ NewSystemAlreadySet(arg)
        \/ NewSystemCentralRoot(arg)
        \/ NewSystemNilDereference(arg)
        \/ NewSystemBarycenter(arg)

---------------------------------------------------------------------------
(* Trigonometry on the grid of quarter turns.                              *)

\* math.Sin and math.Cos of k quarter turns
Sin(k) == CASE k % 4 = 0 -> 0 [] k % 4 = 1 -> 1 [] k % 4 = 2 -> 0 [] OTHER -> -1
Cos(k) == Sin(k + 1)

\* the sign and size of cos and sin of half of k quarter turns, that is of k
\* eighth turns: 0, +-2 for +-1 and +-1 for +-sqrt(1/2)
HalfSin(k) ==
    CASE k % 8 = 0 -> 0 [] k % 8 = 1 -> 1 [] k % 8 = 2 -> 2 [] k % 8 = 3 -> 1
      [] k % 8 = 4 -> 0 [] k % 8 = 5 -> -1 [] k % 8 = 6 -> -2 [] OTHER -> -1
HalfCos(k) == HalfSin(k + 2)

\* math.Atan2(y, x) in eighth turns, in (-pi, pi], for a point on an axis or
\* on a diagonal (|y| = |x|)
Atan2(y, x) ==
    CASE y = 0 /\ x >= 0 -> 0
      [] y > 0 /\ x > 0 -> 1
      [] y > 0 /\ x = 0 -> 2
      [] y > 0 /\ x < 0 -> 3
      [] y = 0 /\ x < 0 -> 4
      [] y < 0 /\ x < 0 -> -3
      [] y < 0 /\ x = 0 -> -2
      [] OTHER -> -1

\* an orbit whose anomalies stay on the grid: either it is circular, or its
\* mean anomaly is a multiple of pi at every whole time (where sin is 0 and
\* the half angle lies on an axis); and its eccentricity is below 1
OnGrid(o) ==
    /\ QLe(QI(0), o.e) /\ QLt(o.e, QI(1))
    /\ o.e = QI(0) \/ (o.m0 % 2 = 0 /\ o.n % 2 = 0)

---------------------------------------------------------------------------
(* orbit.PositionAt, the physical-time propagator.                         *)

\* const J2000 = 2451545.0
J2000 == 2451545
\* for i := 0; i < 10; i++
KeplerIterations == 10

Origin == <<QI(0), QI(0)>>

\* E = M + o.e*math.Sin(E), where the product is 0 on the grid
KeplerStep(M, e, E) ==
    IF QMul(e, QI(Sin(E))) = QI(0) THEN M ELSE "off the grid"

\* the loop that solves Kepler's equation, from its i-th iteration on
RECURSIVE KeplerLoop(_, _, _, _)
KeplerLoop(M, e, E, i) ==
    IF i < KeplerIterations THEN KeplerLoop(M, e, KeplerStep(M, e, E), i + 1) ELSE E

\* 2*math.Atan2(math.Sqrt(1-e)*math.Cos(E/2), math.Sqrt(1+e)*math.Sin(E/2)) in
\* quarter turns: on the grid the two positive square roots change neither the
\* signs nor, where both coordinates are non-zero (e = 0), their ratio
TwiceAtan2(e, E) == Atan2(HalfCos(E), HalfSin(E))

\* r*cos(theta) in both coordinates
Cartesian_BothCos(r, theta) == <<QMul(r, QI(Cos(theta))), QMul(r, QI(Cos(theta)))>>

\* r*cos(theta), r*sin(theta)
Cartesian(r, theta) == <<QMul(r, QI(Cos(theta))), QMul(r, QI(Sin(theta)))>>

\* the body of PositionAt with r = a*(1 + e*cos E)
Propagate_PlusSign(o, julianDay_) ==
    LET M == o.m0 + (julianDay_ - J2000) * o.n
        E == KeplerLoop(M, o.e, M, 0)
        r == QMul(o.a, QAdd(QI(1), QMul(o.e, QI(Cos(E)))))
        theta == o.pomega + TwiceAtan2(o.e, E)
    IN  Cartesian(r, theta)

\* the body of PositionAt after its guard
Propagate(o, julianDay_) ==
    LET M == o.m0 + (julianDay_ - J2000) * o.n
        E == KeplerLoop(M, o.e, M, 0)
        r == QMul(o.a, QSub(QI(1), QMul(o.e, QI(Cos(E)))))
        theta == o.pomega + TwiceAtan2(o.e, E)
    IN  Cartesian(r, theta)

\* PositionAt with the guard a == 0 in place of a <= 0
PositionAt_ZeroOnly(o, julianDay_) ==
    IF o.a = QI(0) THEN Origin ELSE Propagate(o, julianDay_)

\* func (o *orbit) PositionAt(julianDay float64) Vector2D
PositionAt(o, julianDay_) ==
    IF QLe(o.a, QI(0)) THEN Origin ELSE Propagate(o, julianDay_)

\* PositionAt writing the advanced mean anomaly back into the orbit
CallPositionAt_StoresAnomaly ==
    /\ \E d \in 0..MaxDay :
         /\ julianDay' = J2000 - 2 + d
         /\ posResult' = [done |-> TRUE, pos |-> PositionAt(obt, J2000 - 2 + d)]
         /\ obt' = [obt EXCEPT !.m0 = @ + (d - 2) * obt.n]
    /\ UNCHANGED <<periodResult, solver, builderVars, guiVars>>

\* one call of PositionAt on the orbit, at any day of the model
CallPositionAt ==
    /\ \E d \in 0..MaxDay :
         /\ julianDay' = J2000 - 2 + d
         /\ posResult' = [done |-> TRUE, pos |-> PositionAt(obt, J2000 - 2 + d)]
    /\ UNCHANGED <<obt, periodResult, solver, builderVars, guiVars>>

\* what float64 division by zero gives for a positive numerator: +Inf, kept
\* as the fraction 1/0
PlusInf == <<1, 0>>

\* Period returning the time of half a revolution, math.Pi / o.n
Period_HalfTurn(o) == QDiv(QI(2), QI(o.n))

\* func (o *orbit) Period() float64 { return 2 * math.Pi / o.n }: 2*pi is four
\* quarter turns and n counts quarter turns per day, so the result is in days
Period(o) == QDiv(QI(4), QI(o.n))

\* one call of Period on the orbit
CallPeriod ==
    /\ periodResult' = [done |-> TRUE, value |-> Period(obt)]
    /\ UNCHANGED <<obt, julianDay, posResult, solver, builderVars, guiVars>>

---------------------------------------------------------------------------
(* SystemMapRunner: the simulation clock and updateOrbits.                 *)

\* the speeds of the SpeedSelector, in ticks of 0.01: Pause, Slow, Normal, Fast
Speeds == {0, 1, 10, 100}

\* the body of the loop of updateOrbits for one object, at clock value clock
UpdateOrbit(o, clock) ==
    LET M == -(o.M0 + clock * o.n)
        E == KeplerLoop(M, o.e, M, 0)
        th == o.pomega + TwiceAtan2(o.e, E)
        r == QMul(QNeg(o.a), QSub(QI(1), QMul(o.e, QI(Cos(E)))))
    IN  Cartesian(r, th)

\* updateOrbits advancing the clock by a fixed 0.01 whatever the props say
UpdateOrbits_FixedStep ==
    /\ t' = t + 1
    /\ framePos' = [i \in DOMAIN objects |-> UpdateOrbit(objects[i], t + 1)]

\* private updateOrbits: this.t += this.props.deltaT, then every object
UpdateOrbits ==
    /\ t' = t + deltaT
    /\ framePos' = [i \in DOMAIN objects |-> UpdateOrbit(objects[i], t + deltaT)]

\* private draw, as far as the orbits and the dirty flag go: the first thing
\* it does is updateOrbits; the camera block runs when the flag is set (or an
\* object has the focus) and clears the flag
Draw ==
    /\ t + deltaT <= MaxT
    /\ UpdateOrbits
    /\ drawn' = TRUE
    /\ isCameraDirty' = FALSE
    /\ UNCHANGED <<objects, deltaT, listeners, phase, rafPending, builderVars, orbitVars>>

\* SpeedSelector's buttons: setSpeed, re-render, runner.updateProps(props)
SetSpeed ==
    /\ \E speed \in Speeds : deltaT' = speed
    /\ UNCHANGED <<objects, t, framePos, drawn, lifecycleVars, builderVars, orbitVars>>

---------------------------------------------------------------------------
(* The runner's lifecycle: mount, the draw loop, the event handlers as far *)
(* as the listeners and the dirty flag go (focus, pan and zoom values are  *)
(* not kept), and unmount.                                                 *)

\* one addEventListener registration: target, event type, handler
Listener(target, type, handler) == [target |-> target, type |-> type, handler |-> handler]

\* the four registrations of mount
MountListeners ==
    {Listener("webGL", "contextmenu", "onContextMenu"),
     Listener("webGL", "mousedown", "onMouseDown"),
     Listener("webGL", "wheel", "onMouseWheel"),
     Listener("window", "keydown", "onKeyDown")}

\* the registration of init: an arrow function nothing keeps a reference to
InitListeners == {Listener("window", "resize", "anonymous")}

\* the two registrations of onMouseDown
DragListeners ==
    {Listener("document", "mousemove", "onMouseMove"),
     Listener("document", "mouseup", "onMouseUp")}

\* what unmount passes to removeEventListener
UnmountRemovals == MountListeners \cup DragListeners

Registered(target, type) == \E l \in listeners : l.target = target /\ l.type = type

\* event.button of a mousedown: THREE.MOUSE.LEFT is 0, the right button is 2
MouseButtons == {0, 2}

\* public mount: the registrations, init, and drawLoop, which requests the next
\* frame and draws the first one at once
Mount ==
    /\ phase = "new"
    /\ t + deltaT <= MaxT
    /\ listeners' = listeners \cup MountListeners \cup InitListeners
    /\ phase' = "mounted"
    /\ rafPending' = TRUE
    /\ UpdateOrbits
    /\ drawn' = TRUE
    /\ isCameraDirty' = FALSE
    /\ UNCHANGED <<objects, deltaT, builderVars, orbitVars>>

\* private drawLoop, called back by the browser: requests the next frame, draws
DrawLoop ==
    /\ rafPending
    /\ Draw

\* public unmount: cancelAnimationFrame(this.rafHandle), then the removals
Unmount ==
    /\ phase = "mounted"
    /\ rafPending' = FALSE
    /\ listeners' = listeners \ UnmountRemovals
    /\ phase' = "unmounted"
    /\ UNCHANGED <<objects, t, deltaT, framePos, drawn, isCameraDirty, builderVars, orbitVars>>

\* private onMouseDown: only the left button starts a drag
OnMouseDown ==
    /\ Registered("webGL", "mousedown")
    /\ \E button \in MouseButtons :
         listeners' = IF button # 0 THEN listeners ELSE listeners \cup DragListeners
    /\ UNCHANGED <<objects, t, deltaT, framePos, drawn, phase, rafPending, isCameraDirty,
                   builderVars, orbitVars>>

\* private onMouseMove: a move by (0, 0) returns early, any other pans
OnMouseMove ==
    /\ Registered("document", "mousemove")
    /\ \E moved \in BOOLEAN : isCameraDirty' = (isCameraDirty \/ moved)
    /\ UNCHANGED <<objects, t, deltaT, framePos, drawn, listeners, phase, rafPending,
                   builderVars, orbitVars>>

\* private onMouseUp: ends the drag; a short or small one picks a body, which
\* marks the camera dirty unless the pick is too far from every body
OnMouseUp ==
    /\ Registered("document", "mouseup")
    /\ listeners' = listeners \ DragListeners
    /\ \E picked \in BOOLEAN : isCameraDirty' = (isCameraDirty \/ picked)
    /\ UNCHANGED <<objects, t, deltaT, framePos, drawn, phase, rafPending,
                   builderVars, orbitVars>>

\* private onMouseWheel: deltaY < 0 or > 0 zooms, deltaY = 0 does nothing
OnMouseWheel ==
    /\ Registered("webGL", "wheel")
    /\ \E zoomed \in BOOLEAN : isCameraDirty' = (isCameraDirty \/ zoomed)
    /\ UNCHANGED <<objects, t, deltaT, framePos, drawn, listeners, phase, rafPending,
                   builderVars, orbitVars>>

\* private onKeyDown (a switch with empty cases) and onContextMenu
\* (preventDefault): neither changes the runner
OnKeyDownOrContextMenu ==
    /\ Registered("window", "keydown") \/ Registered("webGL", "contextmenu")
    /\ UNCHANGED vars

\* the resize listener of init: this.isCameraDirty = true
OnResize ==
    /\ Registered("window", "resize")
    /\ isCameraDirty' = TRUE
    /\ UNCHANGED <<objects, t, deltaT, framePos, drawn, listeners, phase, rafPending,
                   builderVars, orbitVars>>

\* the runner as its constructor leaves it
NewLifecycle ==
    /\ listeners = {}
    /\ phase = "new"
    /\ rafPending = FALSE
    /\ isCameraDirty = TRUE

\* the runner mounted, its first frame still to be drawn
MountedLifecycle ==
    /\ listeners = MountListeners \cup InitListeners
    /\ phase = "mounted"
    /\ rafPending = TRUE
    /\ isCameraDirty = TRUE

---------------------------------------------------------------------------
(* One position computation, statement by statement: entry, the loop of    *)
(* the Kepler solver, and the conversion to a position after the loop.     *)

\* no position computation under way
IdleSolver == [pc |-> "idle", mode |-> "none", time |-> 0, M |-> 0, E |-> 0, i |-> 0]

\* PositionAt up to its loop: the guard returns at once for a <= 0, otherwise
\* M is computed and E := M, i := 0
SolverEnterPositionAt ==
    /\ solver.pc = "idle"
    /\ \E d \in 0..MaxDay :
         LET day == J2000 - 2 + d
             M == obt.m0 + (day - J2000) * obt.n
         IN  solver' = IF QLe(obt.a, QI(0))
                       THEN [IdleSolver EXCEPT !.pc = "guarded", !.mode = "PositionAt",
                                               !.time = day]
                       ELSE [pc |-> "loop", mode |-> "PositionAt", time |-> day,
                             M |-> M, E |-> M, i |-> 0]
    /\ UNCHANGED <<obt, julianDay, posResult, periodResult, builderVars, guiVars>>

\* the body of updateOrbits for one object up to its loop: M is computed and
\* E = M, i = 0; there is no guard on a
SolverEnterUpdateOrbits ==
    /\ solver.pc = "idle"
    /\ \E clock \in 0..MaxDay :
         LET M == -(obt.m0 + clock * obt.n)
         IN  solver' = [pc |-> "loop", mode |-> "updateOrbits", time |-> clock,
                        M |-> M, E |-> M, i |-> 0]
    /\ UNCHANGED <<obt, julianDay, posResult, periodResult, builderVars, guiVars>>

\* the loop condition with a convergence test added: stop once E is a fixpoint
LoopCondition_UntilConverged(sv) ==
    sv.i < KeplerIterations /\ KeplerStep(sv.M, obt.e, sv.E) # sv.E

\* the loop condition of both solvers: i < 10
LoopCondition(sv) == sv.i < KeplerIterations

\* one pass of the loop body: E = M + e*sin(E), then i++
SolverIterate ==
    /\ solver.pc = "loop"
    /\ LoopCondition(solver)
    /\ solver' = [solver EXCEPT !.E = KeplerStep(solver.M, obt.e, solver.E),
                                !.i = @ + 1]
    /\ UNCHANGED <<obt, julianDay, posResult, periodResult, builderVars, guiVars>>

\* the loop condition fails: control leaves the loop with E as it stands; the
\* statements that follow are straight-line arithmetic on E (Propagate and
\* UpdateOrbit give their value) and the computation is over
SolverExit ==
    /\ solver.pc = "loop"
    /\ ~LoopCondition(solver)
    /\ solver' = [solver EXCEPT !.pc = "done"]
    /\ UNCHANGED <<obt, julianDay, posResult, periodResult, builderVars, guiVars>>

---------------------------------------------------------------------------
(* Initial states: the bodies and orbits the callers construct.            *)

Masses == {QI(1), QI(32)}
Radii == {QI(0), QI(2), QI(12)}
SatAs == {QI(1), QI(8), QI(40)}
\* e, pomega, m0, n of the i-th candidate satellite: NewSystem only copies
\* them, so each candidate has its own and they do not vary further
SatShape(i) == IF i % 2 = 1 THEN <<QI(0), 0, 1, 1>> ELSE <<Q(1, 2), 1, 2, 2>>
\* the orbit of the central body: the degenerate orbit of a root, or a proper one
ZeroOrbit == NewOrbit(QI(0), QI(0), 0, 0, 0)
CentralOrbits == {ZeroOrbit, NewOrbit(QI(5), Q(1, 4), 3, 4, 2)}

SatName(i) == "Moon" \o ToString(i)

\* NewBody for the central body and for each candidate satellite
InitBuilder ==
    /\ \E cr \in Radii, cm \in Masses, co \in CentralOrbits,
          sa \in [1..MaxSats -> SatAs], sm \in [1..MaxSats -> Masses] :
         node = [x \in {centralBody} \cup SatIds |->
                    IF x = centralBody THEN NewBody("Sol", cr, cm, co)
                    ELSE LET i == CHOOSE k \in 1..MaxSats : SatId(k) = x
                             ss == SatShape(i)
                         IN  NewBody(SatName(i), QI(1), sm[i],
                                     NewOrbit(sa[i], ss[1], ss[2], ss[3], ss[4]))]
    /\ calls = <<>>

IdleBuilder ==
    /\ node = [x \in {centralBody} |-> NewBody("Sol", QI(2), QI(1), ZeroOrbit)]
    /\ calls = <<>>

\* the orbits PositionAt is called on: any sign of a, circular or eccentric
OrbitInputs ==
    {o \in {NewOrbit(a, e, pomega, m0, n) :
                a \in {QI(-1), QI(0), QI(2)}, e \in {QI(0), Q(1, 2)},
                pomega \in {0, 1}, m0 \in {0, 1, 2}, n \in {-2, -1, 0, 1, 2}} : OnGrid(o)}

NoPosition == [done |-> FALSE, pos |-> Origin]
NoPeriod == [done |-> FALSE, value |-> QI(0)]

InitOrbit ==
    /\ obt \in OrbitInputs
    /\ julianDay = J2000
    /\ posResult = NoPosition
    /\ periodResult = NoPeriod
    /\ solver = IdleSolver

IdleOrbit ==
    /\ obt = ZeroOrbit
    /\ julianDay = J2000
    /\ posResult = NoPosition
    /\ periodResult = NoPeriod
    /\ solver = IdleSolver

\* the Orbit of the GUI's System model: the same elements, M0 for m0
GuiOrbit(o) == [a |-> o.a, e |-> o.e, pomega |-> o.pomega, M0 |-> o.m0, n |-> o.n]

\* the runner after mount: init has listed the root and its satellite, each
\* frame at the origin of its parent frame, the clock is 0 and the speed is
\* the container's initial useState(0.1)
InitGui ==
    /\ \E o \in OrbitInputs : objects = <<GuiOrbit(ZeroOrbit), GuiOrbit(o)>>
    /\ t = 0
    /\ deltaT = 10
    /\ framePos = <<Origin, Origin>>
    /\ drawn = FALSE
    /\ MountedLifecycle

IdleGui ==
    /\ objects = <<>>
    /\ t = 0
    /\ deltaT = 10
    /\ framePos = <<>>
    /\ drawn = FALSE
    /\ NewLifecycle

---------------------------------------------------------------------------
(* The specifications.                                                     *)

\* the hierarchy builder
Init == InitBuilder /\ IdleOrbit /\ IdleGui
Next == NewSystem
Spec == Init /\ [][Next]_vars

\* the physical-time propagator
InitPropagator == IdleBuilder /\ InitOrbit /\ IdleGui
NextPropagator == CallPositionAt \/ CallPeriod
SpecPropagator == InitPropagator /\ [][NextPropagator]_vars

\* the runner's draw loop and speed selector
InitRunner == IdleBuilder /\ IdleOrbit /\ InitGui
NextRunner == Draw \/ SetSpeed
SpecRunner == InitRunner /\ [][NextRunner]_vars

\* the orbits both propagators are run on side by side: every a, e and n of
\* OrbitInputs, starting at periapsis with the apse line on the x axis
SharedOrbits == {o \in OrbitInputs : o.pomega = 0 /\ o.m0 = 0}

\* the runner from its construction on: the component mounts it once and
\* unmounts it once, the browser delivers frames and events in any order
InitLifecycle ==
    /\ IdleBuilder
    /\ IdleOrbit
    /\ \E o \in SharedOrbits : objects = <<GuiOrbit(ZeroOrbit), GuiOrbit(o)>>
    /\ t = 0
    /\ deltaT = 10
    /\ framePos = <<Origin, Origin>>
    /\ drawn = FALSE
    /\ NewLifecycle
NextLifecycle ==
    \/ Mount
    \/ DrawLoop
    \/ SetSpeed
    \/ OnMouseDown
    \/ OnMouseMove
    \/ OnMouseUp
    \/ OnMouseWheel
    \/ OnKeyDownOrContextMenu
    \/ OnResize
    \/ Unmount
SpecLifecycle == InitLifecycle /\ [][NextLifecycle]_vars

\* one position computation of either propagator, step by step; each step
\* of straight-line code that can be taken is taken
InitSolver == IdleBuilder /\ InitOrbit /\ IdleGui
NextSolver ==
    \/ SolverEnterPositionAt
    \/ SolverEnterUpdateOrbits
    \/ SolverIterate
    \/ SolverExit
SpecSolver == InitSolver /\ [][NextSolver]_vars /\ WF_vars(NextSolver)

\* both propagators at work on the same orbit: PositionAt on the server's
\* copy, the draw loop on the object the GUI built from the same elements
InitPropagation ==
    /\ IdleBuilder
    /\ obt \in SharedOrbits
    /\ julianDay = J2000
    /\ posResult = NoPosition
    /\ periodResult = NoPeriod
    /\ solver = IdleSolver
    /\ objects = <<GuiOrbit(ZeroOrbit), GuiOrbit(obt)>>
    /\ t = 0
    /\ deltaT = 10
    /\ framePos = <<Origin, Origin>>
    /\ drawn = FALSE
    /\ MountedLifecycle
NextPropagation == CallPositionAt \/ Draw \/ SetSpeed
SpecPropagation == InitPropagation /\ [][NextPropagation]_vars

---------------------------------------------------------------------------
(* Claims about the hierarchy builder, checked under Spec.                 *)

Returned(c) == c.outcome = "return"
Panicked(c) == c.outcome = "panic"
HasCalls == Len(calls) > 0
LastCall == calls[Len(calls)]
\* the last call found the central body not yet configured
LastCallWasFirstBuild == HasCalls /\ LastCall.pre[centralBody].satellites.isNil

\* a/(1 + mass_central/mass_satellite) of satellite s among the nodes nd
Offset(nd, s) ==
    QDiv(nd[s].orbit.a, QAdd(QI(1), QDiv(nd[centralBody].mass, nd[s].mass)))

\* the largest of a set of rationals
QMax(S) == CHOOSE x \in S : \A y \in S : QLe(y, x)

\* maxR of a call: the largest offset over the satellites it was given (the
\* builder starts from 0, which is what an empty list leaves)
MaxR(c) == QMax({QI(0)} \cup {Offset(c.pre, s) : s \in Range(c.arg.elems)})

HalfRadius(c) == QMul(Q(1, 2), c.pre[centralBody].radius)

\* every node listed in some satellites list names the owner of that list as parent
ParentsMatchLists ==
    \A y \in DOMAIN node : \A x \in Range(node[y].satellites.elems) : node[x].parent = y

\* a list of nodes in non-decreasing order of their current a
SortedByA(elems) ==
    \A i, j \in 1..Len(elems) : i < j => QLe(node[elems[i]].orbit.a, node[elems[j]].orbit.a)

\* C1: once NewSystem has returned normally on the central body, every later
\* NewSystem call on it panics.
C1_LaterCallPanics ==
    \A i, j \in 1..Len(calls) : (i < j /\ Returned(calls[i])) => Panicked(calls[j])

\* C2: NewSystem given an empty or nil satellite list panics; it never returns
\* a root.
C2_EmptyListPanics ==
    \A i \in 1..Len(calls) : calls[i].arg.elems = <<>> => Panicked(calls[i])

\* C3: in the tree NewSystem returned, each node listed in Y.satellites has
\* parent Y, the central body under a new barycenter included.
C3_ParentsConsistent ==
    (HasCalls /\ Returned(LastCall)) => ParentsMatchLists

\* C4: after NewSystem returned, every node's satellites list is in
\* non-decreasing order of a.
C4_ListsSortedByA ==
    (HasCalls /\ Returned(LastCall)) =>
        \A y \in DOMAIN node : SortedByA(node[y].satellites.elems)

\* the barycenter case of C5: a first build over a non-empty list whose largest
\* offset reaches half the central body's radius
BarycenterCase ==
    /\ LastCallWasFirstBuild
    /\ LastCall.arg.elems # <<>>
    /\ QLe(HalfRadius(LastCall), MaxR(LastCall))

\* C5: in the barycenter case NewSystem returns a new Barycenter whose list
\* holds the central body and the dominant satellite (one achieving maxR); the
\* central body's a is then maxR and the dominant satellite's a is its former
\* a less maxR.
C5_BarycenterCase ==
    BarycenterCase =>
        LET c == LastCall
            dom == c.baryBody
        IN  /\ Returned(c)
            /\ c.root = bc
            /\ bc \in DOMAIN node
            /\ node[bc].kind = "Barycenter"
            /\ dom \in Range(c.arg.elems)
            /\ Offset(c.pre, dom) = MaxR(c)
            /\ centralBody \in Range(node[bc].satellites.elems)
            /\ dom \in Range(node[bc].satellites.elems)
            /\ node[centralBody].orbit.a = MaxR(c)
            /\ node[dom].orbit.a = QSub(c.pre[dom].orbit.a, MaxR(c))

C5_Witness ==
    /\ BarycenterCase
    /\ Len(LastCall.arg.elems) = 2
    /\ LastCall.root = bc
    /\ LastCall.baryBody = SatId(1)
    /\ QLt(QI(0), node[SatId(1)].orbit.a)
    /\ node[centralBody].satellites.elems # <<>>

\* the no-barycenter case of C6: a first build whose largest offset stays
\* below half the central body's radius
NoBarycenterCase ==
    /\ LastCallWasFirstBuild
    /\ QLt(MaxR(LastCall), HalfRadius(LastCall))

\* C6: in the no-barycenter case NewSystem returns the central body itself
\* with soi -1, creates no barycenter, and leaves on the central body exactly
\* the satellites it was given, sorted by a, each with the central body as parent.
C6_NoBarycenterCase ==
    NoBarycenterCase =>
        LET c == LastCall
            list == node[centralBody].satellites
        IN  /\ Returned(c)
            /\ c.root = centralBody
            /\ SoiRadius(node[centralBody]) = QI(-1)
            /\ bc \notin DOMAIN node
            /\ list.isNil = c.arg.isNil
            /\ Len(list.elems) = Len(c.arg.elems)
            /\ Range(list.elems) = Range(c.arg.elems)
            /\ SortedByA(list.elems)
            /\ \A s \in Range(list.elems) :
                 /\ node[s].parent = centralBody
                 /\ node[s].orbit = c.pre[s].orbit

C6_Witness ==
    /\ NoBarycenterCase
    /\ Len(node[centralBody].satellites.elems) = 2
    /\ QLt(QI(0), MaxR(LastCall))
    /\ LastCall.root = centralBody

C8_RootSoiSentinel ==
    (HasCalls /\ Returned(LastCall)) => SoiRadius(node[LastCall.root]) = QI(-1)

C8_Witness ==
    /\ Len(calls) = 2
    /\ Returned(calls[1]) /\ calls[1].root = centralBody /\ calls[1].arg.isNil
    /\ Returned(calls[2]) /\ calls[2].root = bc
    /\ SoiRadius(node[bc]) = QI(-1)

---------------------------------------------------------------------------
(* Claims about the propagators, checked under SpecPropagator and          *)
(* SpecRunner.                                                             *)

Degenerate(o) == QLe(o.a, QI(0))

\* C9: PositionAt returns exactly (0, 0) whenever a = 0 or a < 0, at every
\* time and for every e and n.
C9_DegenerateAtOrigin ==
    (posResult.done /\ Degenerate(obt)) => posResult.pos = Origin

C9_Witness ==
    /\ posResult.done
    /\ QLt(obt.a, QI(0))
    /\ obt.e # QI(0) /\ obt.n # 0
    /\ julianDay > J2000
    /\ posResult.pos = Origin

\* C10: on every frame updateOrbits places an object whose orbit has a = 0 or
\* a < 0 at the origin (0, 0) of its parent frame.
C10_RunnerDegenerateAtOrigin ==
    drawn => \A i \in DOMAIN objects : Degenerate(objects[i]) => framePos[i] = Origin

\* C11: Period returns 2*pi/n when n > 0 and +infinity otherwise, that is for
\* n = 0 and for every n < 0.
C11_PeriodInfiniteUnlessPositive ==
    periodResult.done =>
        periodResult.value = IF obt.n > 0 THEN Q(4, obt.n) ELSE PlusInf

\* C12: propagation never mutates the node: no call of PositionAt and no
\* frame of updateOrbits changes an orbit's elements (a, e, pomega, m0, n) or
\* a node's parent, satellites, radius, mass or soi; only the returned
\* position and the frame positions change.
C12_PropagationLeavesNodes ==
    [][obt' = obt /\ objects' = objects /\ node' = node]_vars

\* PositionAt has returned and a frame has been drawn, both away from the
\* initial anomaly
C12_Witness ==
    /\ posResult.done /\ julianDay # J2000
    /\ drawn /\ t > 0
    /\ obt.n # 0

---------------------------------------------------------------------------
(* Claims about the shape of the propagated path, checked under            *)
(* SpecPropagator.                                                         *)

\* the mean anomaly PositionAt computes, in quarter turns
MeanAnomaly(o, julianDay_) == o.m0 + (julianDay_ - J2000) * o.n

\* squared distance of a position from the origin
DistSq(pos) == QAdd(QMul(pos[1], pos[1]), QMul(pos[2], pos[2]))

QSquare(x) == QMul(x, x)

AtPeriapsis == MeanAnomaly(obt, julianDay) % 4 = 0
AtApoapsis == MeanAnomaly(obt, julianDay) % 4 = 2

\* C13: for a > 0, PositionAt at a time where M is a multiple of 2*pi returns a
\* point at distance a*(1 - e) from the origin, and at a time where M is
\* congruent to pi a point at distance a*(1 + e).
C13_ApsidalDistances ==
    (posResult.done /\ QLt(QI(0), obt.a)) =>
        /\ AtPeriapsis =>
             DistSq(posResult.pos) = QSquare(QMul(obt.a, QSub(QI(1), obt.e)))
        /\ AtApoapsis =>
             DistSq(posResult.pos) = QSquare(QMul(obt.a, QAdd(QI(1), obt.e)))

\* an eccentric orbit propagated away from its epoch to its apoapsis
C13_Witness ==
    /\ posResult.done /\ julianDay # J2000
    /\ QLt(QI(0), obt.a) /\ obt.e # QI(0)
    /\ AtApoapsis

\* a float64 that is a whole number of days
WholeDays(x) == x[2] = 1

\* C14: period invariance: for every orbit with n # 0 and every t, PositionAt(t)
\* and PositionAt(t + Period()) return the same point.
C14_PeriodInvariance ==
    (posResult.done /\ periodResult.done /\ obt.n # 0
        /\ WholeDays(periodResult.value)) =>
        PositionAt(obt, julianDay + periodResult.value[1]) = posResult.pos

\* a moving, non-degenerate orbit whose period and position have both been
\* asked for, the position away from the epoch
C14_Witness ==
    /\ posResult.done /\ periodResult.done
    /\ obt.n # 0 /\ WholeDays(periodResult.value)
    /\ julianDay # J2000
    /\ posResult.pos # Origin

\* C15: for e = 0 and a > 0 the distance of PositionAt(t) from the origin is a,
\* at every t and for every pomega, m0 and n.
C15_CircularDistance ==
    (posResult.done /\ obt.e = QI(0) /\ QLt(QI(0), obt.a)) =>
        DistSq(posResult.pos) = QSquare(obt.a)

\* a circular orbit propagated a quarter turn or more away from its epoch
C15_Witness ==
    /\ posResult.done /\ obt.e = QI(0) /\ QLt(QI(0), obt.a)
    /\ MeanAnomaly(obt, julianDay) # obt.m0

---------------------------------------------------------------------------
(* The two propagators side by side, checked under SpecPropagation.        *)

\* the points PositionAt returns over one revolution: with n a whole number
\* of quarter turns per day, four consecutive days cover every anomaly the
\* orbit visits
GoPath(o) == {PositionAt(o, J2000 + d) : d \in 0..3}

\* the points updateOrbits places the frame at over one revolution
GuiPath(o) == {UpdateOrbit(o, k) : k \in 0..3}

\* C16: for identical elements with a > 0 and 0 <= e < 1 the Go propagator
\* and the GUI propagator trace the same ellipse over one revolution: every
\* point PositionAt returns is a point of the GUI's path, and every frame
\* position the GUI draws is a point of PositionAt's path.
C16_SamePath ==
    (QLt(QI(0), obt.a) /\ obt.n # 0) =>
        /\ posResult.done => posResult.pos \in GuiPath(objects[2])
        /\ drawn => framePos[2] \in GoPath(obt)

---------------------------------------------------------------------------
(* Claims about the barycenter branch of the builder, checked under Spec.  *)

\* the last call was a first build that returned a new barycenter
BuiltBarycenter == BarycenterCase /\ Returned(LastCall) /\ LastCall.root = bc

\* the input satellites of call c that lie inside the dominant satellite's
\* influence boundary: a, as passed in, below dominant.a - dominant.soi
InnerInputs(c) ==
    LET dom == c.baryBody
        boundary == QSub(c.pre[dom].orbit.a, node[dom].soi)
    IN  {s \in Range(c.arg.elems) : QLt(c.pre[s].orbit.a, boundary)}

OuterInputs(c) == Range(c.arg.elems) \ InnerInputs(c)

\* a list that holds exactly the members of S, each once
ListsExactly(elems, S) == Range(elems) = S /\ Len(elems) = Cardinality(S)

\* C17: in the barycenter case the central body's satellites are exactly the
\* input satellites with a < dominant.a - dominant.soi, each with the central
\* body as parent; the barycenter's satellites are the central body at index
\* 0 followed by all the other input satellites, each with the barycenter as
\* parent; every input satellite is in exactly one of the two lists, once.
C17_Partition ==
    BuiltBarycenter =>
        LET c == LastCall
            inner == node[centralBody].satellites.elems
            outer == node[bc].satellites.elems
        IN  /\ ListsExactly(inner, InnerInputs(c))
            /\ \A s \in InnerInputs(c) : node[s].parent = centralBody
            /\ outer # <<>>
            /\ outer[1] = centralBody
            /\ ListsExactly(Tail(outer), OuterInputs(c))
            /\ \A s \in OuterInputs(c) : node[s].parent = bc

\* a barycenter built with one satellite kept by the central body and the
\* dominant one moved out
C17_Witness ==
    /\ BuiltBarycenter
    /\ InnerInputs(LastCall) # {}
    /\ OuterInputs(LastCall) # {}
    /\ node[centralBody].satellites.elems # <<>>

\* e, pomega and n of an orbit: what the rewrite of a body leaves of its shape
Shape(o) == <<o.e, o.pomega, o.n>>

\* C18: in the barycenter case the central body's soi is afterwards the
\* dominant satellite's a, as passed in, less the dominant satellite's soi; its
\* orbit has the dominant satellite's e, pomega and n, and an m0 equal to the
\* dominant satellite's m0 plus pi; the dominant satellite's own e, pomega, m0
\* and n are unchanged.
C18_CentralRewrite ==
    BuiltBarycenter =>
        LET c == LastCall
            dom == c.baryBody
        IN  /\ node[centralBody].soi = QSub(c.pre[dom].orbit.a, node[dom].soi)
            /\ Shape(node[centralBody].orbit) = Shape(c.pre[dom].orbit)
            /\ node[centralBody].orbit.m0 = c.pre[dom].orbit.m0 + 2
            /\ Shape(node[dom].orbit) = Shape(c.pre[dom].orbit)
            /\ node[dom].orbit.m0 = c.pre[dom].orbit.m0

\* a barycenter built around a central body whose own orbit differed from the
\* dominant satellite's in shape
C18_Witness ==
    /\ BuiltBarycenter
    /\ Shape(LastCall.pre[centralBody].orbit) # Shape(LastCall.pre[LastCall.baryBody].orbit)
    /\ node[centralBody].soi # LastCall.pre[centralBody].soi

\* C19: the barycenter takes over the central body's slot: its orbit is the
\* central body's orbit as it was before NewSystem rewrote it, its radius is
\* maxR and its mass is the central body's mass plus the dominant satellite's.
C19_BarycenterFields ==
    BuiltBarycenter =>
        LET c == LastCall
            dom == c.baryBody
        IN  /\ node[bc].orbit = c.pre[centralBody].orbit
            /\ node[bc].radius = MaxR(c)
            /\ node[bc].mass = QAdd(c.pre[centralBody].mass, c.pre[dom].mass)

\* a barycenter built around a central body that had an orbit of its own, which
\* the rewrite then replaced
C19_Witness ==
    /\ BuiltBarycenter
    /\ LastCall.pre[centralBody].orbit # ZeroOrbit
    /\ node[centralBody].orbit # node[bc].orbit
    /\ QLt(QI(0), node[bc].radius)

---------------------------------------------------------------------------
(* The cost of the Kepler solver, checked under SpecSolver.                *)

\* the loop, run step by step, ends on the E the propagators' KeplerLoop gives
SolverMatchesKeplerLoop ==
    solver.pc = "done" => solver.E = KeplerLoop(solver.M, obt.e, solver.M, 0)

\* C20: in both propagators the iteration E <- M + e*sin(E) starts from E = M
\* and its body runs exactly 10 times for every input that reaches it (every
\* a > 0 in PositionAt, every input in updateOrbits), with no early exit; the
\* computation then comes to its end.
C20_TenIterations ==
    /\ [](solver.pc = "guarded" =>
            solver.mode = "PositionAt" /\ QLe(obt.a, QI(0)))
    /\ []((solver.pc = "loop" /\ solver.i = 0) => solver.E = solver.M)
    /\ [](solver.pc = "done" => solver.i = KeplerIterations)
    /\ (solver.pc = "loop") ~> (solver.pc = "done")

\* a finished computation on an eccentric orbit away from its epoch
C20_Witness ==
    /\ solver.pc = "done"
    /\ solver.i = KeplerIterations
    /\ obt.e # QI(0)
    /\ solver.M # obt.m0
    /\ solver.mode = "updateOrbits"

---------------------------------------------------------------------------
(* The runner's clock, checked under SpecRunner.                           *)

\* a step that drew a frame: it moved the clock or a body, or it was the first
FrameStep == t' # t \/ framePos' # framePos \/ drawn' # drawn

\* C21: every drawn frame advances the clock t by exactly the deltaT most
\* recently passed in through the props, so t never decreases; a change of
\* speed alone moves nothing; and while deltaT = 0, once a frame has been
\* drawn, t and every body's position stay as they are over every frame.
C21_ClockFollowsSpeed ==
    [][/\ t' >= t
       /\ FrameStep => (deltaT' = deltaT /\ t' = t + deltaT)
       /\ deltaT' # deltaT => (t' = t /\ framePos' = framePos)
       /\ (deltaT = 0 /\ drawn) => (t' = t /\ framePos' = framePos)]_vars

\* paused after the clock has run and a moving body has left its first place,
\* with frames still to come
C21_Witness ==
    /\ drawn /\ deltaT = 0 /\ t > 0 /\ t < MaxT
    /\ objects[2].n # 0 /\ QLt(QI(0), objects[2].a)
    /\ framePos[2] # UpdateOrbit(objects[2], 0)

---------------------------------------------------------------------------
(* The runner's lifecycle, checked under SpecLifecycle.                    *)

\* C22: once the runner has been mounted and then unmounted, whatever mouse,
\* wheel, key and resize events came in between and even with a drag still
\* in progress at unmount, none of the listeners it registered on the canvas,
\* the document or the window is still registered, and no animation frame is
\* pending, so no further frame is drawn.
C22_UnmountLeavesNothing ==
    phase = "unmounted" => (listeners = {} /\ ~rafPending)

====
